---- MODULE Spec2Model ----
(***************************************************************************)
(* ManageDocumentForm (src/components/manage-document-form.tsx): the form  *)
(* value `documents` (EditState), the prop `initialDocuments` (InitialSet),*)
(* the two useState cells, every running invocation of the async onSubmit  *)
(* handler, and what the handler has sent to the update service and to the *)
(* parent (onUpdateStart, onUpdateEnd).                                    *)
(***************************************************************************)
EXTENDS Integers, Sequences, FiniteSets

\* ---------------------------------------------------------------- bounds
MaxInitial == 2      \* longest initialDocuments the parent supplies
MaxDocs == 3         \* longest form value `documents`
MaxPulls == 1        \* progress messages one stream yields
MaxSessions == 2     \* initialDocuments values the parent supplies in all

\* ---------------------------------------------------------------- values
\* JavaScript `undefined` (an absent optional field, a call without argument)
Undefined == "<undefined>"

\* updateProgressMessage: string | null
Null == "<null>"

\* ids a persisted document can carry: `id: string` admits the empty string
Ids == {"", "1", "2"}

\* File payloads the drop zone hands over (file.name is the token itself)
Files == {"c.pdf", "d.docx"}

\* progress strings the update service yields
Messages == {"uploading"}

\* values the progress sequence can reject with
ErrWithMessage == "Error('boom')"
ErrObject == "{code:1}"
ErrString == "'boom'"
ErrSymbol == "Symbol()"
ErrNull == Null
ErrUndefined == Undefined
ErrorValues == {ErrWithMessage, ErrObject, ErrString, ErrSymbol, ErrNull, ErrUndefined}

\* ghost values of a flow record: nothing thrown / nothing escaped
NoError == "<none>"
TypeError == "TypeError: Cannot read properties"

\* JavaScript truthiness of a string-or-undefined value: `!!v`
Truthy(v) == v \notin {Undefined, Null, ""}

\* type Document = { id?, name?, file? }
Document(id, name, file) == [id |-> id, name |-> name, file |-> file]

\* an element of initialDocuments: { id: string; name: string }
Persisted(id) == Document(id, "doc" \o id, Undefined)

RECURSIVE SeqsUpTo(_, _)
SeqsUpTo(S, n) ==
  IF n = 0 THEN {<<>>}
  ELSE LET shorter == SeqsUpTo(S, n - 1)
       IN shorter \cup {Append(s, x) : s \in {t \in shorter : Len(t) = n - 1}, x \in S}

\* the values the prop initialDocuments can take
InitialSets == SeqsUpTo({Persisted(i) : i \in Ids}, MaxInitial)

Range(s) == {s[k] : k \in DOMAIN s}

VARIABLES
  initialDocuments,        \* prop: the current InitialSet
  documents,               \* form value `documents`: the EditState
  isUpdating,              \* useState<boolean>
  updateProgressMessage,   \* useState<string | null>
  flows,                   \* the invocations of onSubmit suspended in `for await`
  lastCall,                \* argument of the latest submitUpdateDocuments call
  lastEnded,               \* the invocation of onSubmit that returned last
  session,                 \* ghost: how many InitialSets were supplied so far
  progressSession          \* ghost: session of the flow that set the message

vars == <<initialDocuments, documents, isUpdating, updateProgressMessage,
          flows, lastCall, lastEnded, session, progressSession>>

\* ---------------------------------------------------------------- onSubmit
\* faulty variant: the files in reverse order
addedFiles_reversed(docs) ==
  LET addedDocuments == SelectSeq(docs, LAMBDA d : Truthy(d.file))
  IN [k \in DOMAIN addedDocuments |-> addedDocuments[Len(addedDocuments) + 1 - k].file]

\* lines 85-88: documents carrying a file, projected to the file
addedFiles(docs) ==
  LET addedDocuments == SelectSeq(docs, LAMBDA d : Truthy(d.file))
  IN [k \in DOMAIN addedDocuments |-> addedDocuments[k].file]

\* lines 90-93: ids of the documents of the form value that have a truthy id
remainedDocumentIds(docs) ==
  LET remainedDocuments == SelectSeq(docs, LAMBDA d : Truthy(d.id))
  IN [k \in DOMAIN remainedDocuments |-> remainedDocuments[k].id]

\* faulty variant: the negation of `includes` is lost
removedDocumentIds_included(initial, docs) ==
  LET remained == Range(remainedDocumentIds(docs))
      removedDocuments == SelectSeq(initial, LAMBDA d : Truthy(d.id) /\ d.id \in remained)
  IN [k \in DOMAIN removedDocuments |-> removedDocuments[k].id]

\* lines 95-98: truthy initial ids that are not among the remaining ids
removedDocumentIds(initial, docs) ==
  LET remained == Range(remainedDocumentIds(docs))
      removedDocuments == SelectSeq(initial, LAMBDA d : Truthy(d.id) /\ d.id \notin remained)
  IN [k \in DOMAIN removedDocuments |-> removedDocuments[k].id]

\* faulty variant: the short-circuit of line 102 is never taken
isAnyFileChanged_always(added, removed) == TRUE

\* line 100: addedFiles.length || removedDocumentIds.length
isAnyFileChanged(added, removed) == Len(added) # 0 \/ Len(removed) # 0

\* line 118, `(e as any).message`: reading a property of null or undefined throws
PropertyAccessThrows(e) == e \in {Null, Undefined}

\* line 118, `(e as any).message` of a value that has properties
MessageField(e) == IF e = ErrWithMessage THEN "boom" ELSE Undefined

\* line 118, JSON.stringify(e): an Error has no enumerable property, a string is
\* quoted, a symbol and undefined serialize to undefined
JSONstringify(e) ==
  CASE e = ErrWithMessage -> "{}"
    [] e = ErrObject -> "{\"code\":1}"
    [] e = ErrString -> "\"boom\""
    [] e = ErrNull -> "null"
    [] OTHER -> Undefined

\* line 118: (e as any).message || JSON.stringify(e) || e
errorMessage(e) ==
  IF Truthy(MessageField(e)) THEN MessageField(e)
  ELSE IF Truthy(JSONstringify(e)) THEN JSONstringify(e)
  ELSE e

\* lines 80-81: an invocation of onSubmit that has called onUpdateStart; `log`
\* lists what it did at the boundary, `endArgs` the arguments of its onUpdateEnd
\* calls, `error` what it caught, `escaped` what it threw to its caller
StartedFlow ==
  [session |-> session, log |-> <<"onUpdateStart">>, endArgs |-> <<>>,
   error |-> NoError, escaped |-> NoError]

\* before the first onSubmit has returned
NoFlow == [session |-> 0, log |-> <<>>, endArgs |-> <<>>, error |-> NoError, escaped |-> NoError]

\* before the first call of submitUpdateDocuments
NoCall == [called |-> FALSE, added |-> <<>>, removed |-> <<>>]

\* lines 107-110: submitUpdateDocuments({ added, removed })
submitUpdateDocuments(added, removed) == [called |-> TRUE, added |-> added, removed |-> removed]

\* lines 103 and 116: onUpdateEnd() with no argument
onUpdateEnd(f) ==
  [f EXCEPT !.log = Append(@, "onUpdateEnd"), !.endArgs = Append(@, Undefined)]

\* lines 117-119: the catch block; computing errorMessage itself throws for
\* null and undefined, and then line 119 is never reached
catchBlock(f, e) ==
  IF PropertyAccessThrows(e)
  THEN [f EXCEPT !.error = e, !.escaped = TypeError]
  ELSE [f EXCEPT !.error = e, !.log = Append(@, "onUpdateEnd"),
                 !.endArgs = Append(@, errorMessage(e))]

\* faulty variant: the progress message is not cleared
finallyState_keepsMessage == [isUpdating |-> FALSE, updateProgressMessage |-> updateProgressMessage]

\* lines 120-123: the finally block
finallyState == [isUpdating |-> FALSE, updateProgressMessage |-> Null]

\* invocation f returns (or throws) through the finally block
Finally(f) ==
  /\ lastEnded' = f
  /\ isUpdating' = finallyState.isUpdating
  /\ updateProgressMessage' = finallyState.updateProgressMessage
  /\ progressSession' = IF updateProgressMessage' = Null THEN 0 ELSE progressSession

\* faulty variant: the button is never disabled
SaveEnabled_always == TRUE

\* line 245: <Button type='submit' disabled={isUpdating}>
SaveEnabled == ~isUpdating

\* lines 79-124 up to the first await: the user presses Save
onSubmit ==
  /\ SaveEnabled
  /\ LET added == addedFiles(documents)
         removed == removedDocumentIds(initialDocuments, documents)
     IN IF ~isAnyFileChanged(added, removed)
        THEN /\ Finally(onUpdateEnd(StartedFlow))
             /\ UNCHANGED <<flows, lastCall>>
        ELSE /\ lastCall' = submitUpdateDocuments(added, removed)
             /\ flows' = Append(flows, [StartedFlow EXCEPT !.log = Append(@, "submitUpdateDocuments")])
             /\ isUpdating' = TRUE
             /\ UNCHANGED <<updateProgressMessage, progressSession, lastEnded>>
  /\ UNCHANGED <<initialDocuments, documents, session>>

Pulls(f) == Cardinality({k \in DOMAIN f.log : f.log[k] = "pull"})

RemoveAt(s, i) == [k \in 1..(Len(s) - 1) |-> IF k < i THEN s[k] ELSE s[k + 1]]

\* lines 112-114: the stream of flow i yields message m
ProgressMessage(i, m) ==
  /\ i \in DOMAIN flows
  /\ Pulls(flows[i]) < MaxPulls
  /\ flows' = [flows EXCEPT ![i].log = Append(@, "pull")]
  /\ updateProgressMessage' = m
  /\ progressSession' = flows[i].session
  /\ UNCHANGED <<initialDocuments, documents, isUpdating, lastCall, lastEnded, session>>

\* lines 112, 116, 120-123: the stream of flow i completes
ProgressDone(i) ==
  /\ i \in DOMAIN flows
  /\ flows' = RemoveAt(flows, i)
  /\ Finally(onUpdateEnd(flows[i]))
  /\ UNCHANGED <<initialDocuments, documents, lastCall, session>>

\* lines 112, 117-123: pulling the next message of flow i rejects with e
ProgressRejected(i, e) ==
  /\ i \in DOMAIN flows
  /\ flows' = RemoveAt(flows, i)
  /\ Finally(catchBlock(flows[i], e))
  /\ UNCHANGED <<initialDocuments, documents, lastCall, session>>

\* ---------------------------------------------------------------- editing
\* lines 154-163: files are dropped on the drop zone
onFileDropped(newFiles) ==
  /\ Len(documents) + Len(newFiles) <= MaxDocs
  /\ LET newDocuments == [k \in DOMAIN newFiles |-> Document(Undefined, newFiles[k], newFiles[k])]
     IN documents' = documents \o newDocuments
  /\ UNCHANGED <<initialDocuments, isUpdating, updateProgressMessage, flows,
                 lastCall, lastEnded, session, progressSession>>

\* lines 190-196: the trash button of the entry at `index`
onClickDelete(index) ==
  /\ index \in DOMAIN documents
  /\ LET kept == SelectSeq([k \in DOMAIN documents |-> k], LAMBDA i : i # index)
     IN documents' = [k \in DOMAIN kept |-> documents[kept[k]]]
  /\ UNCHANGED <<initialDocuments, isUpdating, updateProgressMessage, flows,
                 lastCall, lastEnded, session, progressSession>>

\* ---------------------------------------------------------------- sessions
\* faulty variant: the form is not reset
formReset_skipped(newDocuments) == documents

\* lines 74-76: form.reset({ documents: initialDocuments })
formReset(newDocuments) == newDocuments

\* lines 72-77: the parent supplies a new initialDocuments and the effect runs
useEffectInitialDocuments(newDocuments) ==
  /\ session < MaxSessions
  /\ initialDocuments' = newDocuments
  /\ isUpdating' = FALSE
  /\ documents' = formReset(newDocuments)
  /\ session' = session + 1
  /\ UNCHANGED <<updateProgressMessage, flows, lastCall, lastEnded, progressSession>>

\* lines 56-66: the mounted component, for the InitialSets in `sets`
Mounted(sets) ==
  /\ initialDocuments \in sets
  /\ documents = initialDocuments
  /\ isUpdating = FALSE
  /\ updateProgressMessage = Null
  /\ flows = <<>>
  /\ lastCall = NoCall
  /\ lastEnded = NoFlow
  /\ session = 1
  /\ progressSession = 0

\* the user edits the list: drops of the files in `files`, deletes of any entry
Edit(files) ==
  \/ \E newFiles \in SeqsUpTo(files, MaxDocs) \ {<<>>} : onFileDropped(newFiles)
  \/ \E index \in 1..MaxDocs : onClickDelete(index)

\* the update service moves a progress sequence on, failing with the values in `errors`
Consume(errors) ==
  \E i \in DOMAIN flows :
    \/ \E m \in Messages : ProgressMessage(i, m)
    \/ ProgressDone(i)
    \/ \E e \in errors : ProgressRejected(i, e)

\* -------------------------------------------------- the delta: any InitialSet
InitDelta == Mounted(InitialSets)

NextDelta == Edit(Files) \/ onSubmit \/ \E i \in DOMAIN flows : ProgressDone(i)

SpecDelta == InitDelta /\ [][NextDelta]_vars

\* -------------------------------------------------- the save flow: one document
SmallSets == {<<>>, <<Persisted("1")>>}

Init == Mounted(SmallSets)

\* a rejection the catch block reports, and one its property access fails on
SomeErrors == {ErrWithMessage, ErrNull}

NewSession == \E newDocuments \in SmallSets : useEffectInitialDocuments(newDocuments)

Next == Edit({"c.pdf"}) \/ onSubmit \/ Consume(SomeErrors) \/ NewSession

Spec == Init /\ [][Next]_vars

\* one edit session: the parent never supplies another initialDocuments, and
\* the stream rejects with any of ErrorValues
NextOneSession == Edit({"c.pdf"}) \/ onSubmit \/ Consume(ErrorValues)

SpecOneSession == Init /\ [][NextOneSession]_vars

\* ================================================================ claims
\* the files of the entries of docs that carry one, in the order of docs
RECURSIVE FilesCarried(_)
FilesCarried(docs) ==
  IF docs = <<>> THEN <<>>
  ELSE (IF Head(docs).file = Undefined THEN <<>> ELSE <<Head(docs).file>>)
       \o FilesCarried(Tail(docs))

\* the ids the entries of docs carry
IdsPresent(docs) == {docs[k].id : k \in DOMAIN docs} \ {Undefined}

\* the ids of initial, in the order of initial, that are neither in `present`
\* nor in `ignored`
RECURSIVE IdsMissing(_, _, _)
IdsMissing(initial, present, ignored) ==
  IF initial = <<>> THEN <<>>
  ELSE (IF Head(initial).id \in present \cup ignored THEN <<>> ELSE <<Head(initial).id>>)
       \o IdsMissing(Tail(initial), present, ignored)

\* this step is a save that called the update service
SaveCalls == onSubmit /\ Len(flows') = Len(flows) + 1

\* this step is the end of an invocation of onSubmit
Ended == Len(flows') < Len(flows) \/ lastEnded' # lastEnded

\* the invocation f called the update service
Called(f) == "submitUpdateDocuments" \in Range(f.log)

\* the delta a save would compute in this state
Delta == submitUpdateDocuments(addedFiles(documents),
                               removedDocumentIds(initialDocuments, documents))

\* C1: a save whose computed delta has no added file and no removed id does not
\* call the update service and calls onUpdateEnd once, with no argument; every
\* other save calls the service, with a delta that is not empty.
T_C1 ==
  [][onSubmit =>
       IF Delta.added = <<>> /\ Delta.removed = <<>>
       THEN /\ lastCall' = lastCall
            /\ flows' = flows
            /\ lastEnded'.log = <<"onUpdateStart", "onUpdateEnd">>
            /\ lastEnded'.endArgs = <<Undefined>>
       ELSE /\ lastCall'.called
            /\ lastCall'.added # <<>> \/ lastCall'.removed # <<>>
            /\ Len(flows') = Len(flows) + 1]_vars

\* C1 witness: a save has ended without a call of the update service while
\* EditState holds every document of a non-empty InitialSet and no file.
W_C1 ==
  /\ lastEnded.log = <<"onUpdateStart", "onUpdateEnd">>
  /\ ~lastCall.called
  /\ initialDocuments # <<>>
  /\ documents = initialDocuments

\* C2 as stated: the removed list passed to the update service is the ids of
\* InitialSet, in InitialSet order, that no entry of EditState carries.
CE_C2 ==
  [][SaveCalls =>
       lastCall'.removed = IdsMissing(initialDocuments, IdsPresent(documents), {})]_vars

\* C2 amended: the removed list is the non-empty ids of InitialSet, in
\* InitialSet order, that no entry of EditState carries; one missing non-empty
\* id gives exactly that id, and an empty InitialSet gives an empty list.
T_C2 ==
  [][SaveCalls =>
       LET missing == IdsMissing(initialDocuments, IdsPresent(documents), {""})
       IN /\ lastCall'.removed = missing
          /\ initialDocuments = <<>> => lastCall'.removed = <<>>
          /\ \A id \in Ids \ {""} :
               Range(missing) = {id} => Range(lastCall'.removed) = {id}]_vars

\* C2 witness: both ids of a two-document InitialSet were removed, after a drop.
W_C2 ==
  /\ flows # <<>>
  /\ lastCall.removed = <<"2", "1">>
  /\ lastCall.added # <<>>

\* C3: the added list passed to the update service is the files of the entries
\* of EditState that carry one, in EditState order.
T_C3 == [][SaveCalls => lastCall'.added = FilesCarried(documents)]_vars

\* C3 witness: two different files were submitted while a persisted entry is
\* still listed before them.
W_C3 ==
  /\ flows # <<>>
  /\ lastCall.added = <<"d.docx", "c.pdf">>
  /\ Len(documents) = 3
  /\ documents[1].id = "1"

\* C4 as stated: a failed save has called onUpdateEnd once, with a message, and
\* nothing escaped the save flow.
CE_C4 ==
  lastEnded.error # NoError =>
    /\ lastEnded.escaped = NoError
    /\ Len(lastEnded.endArgs) = 1
    /\ lastEnded.endArgs[1] # Undefined

\* C5: whenever an invocation of onSubmit ends (empty delta, stream completed,
\* stream failed) isUpdating is false, the progress message is null and Save is
\* enabled again.
T_C5 ==
  [][Ended => /\ isUpdating' = FALSE
              /\ updateProgressMessage' = Null
              /\ SaveEnabled']_vars

\* C5 witness: a save failed after a progress message had been shown, and the
\* form is idle.
W_C5 ==
  /\ lastEnded.error # NoError
  /\ "pull" \in Range(lastEnded.log)
  /\ flows = <<>>
  /\ ~isUpdating
  /\ updateProgressMessage = Null

\* C6 as stated: a save that has ended called onUpdateStart first and onUpdateEnd
\* last, each exactly once; a save still running has called onUpdateStart first
\* and not yet onUpdateEnd.
CE_C6 ==
  /\ lastEnded # NoFlow =>
       /\ Len(lastEnded.log) >= 2
       /\ lastEnded.log[1] = "onUpdateStart"
       /\ lastEnded.log[Len(lastEnded.log)] = "onUpdateEnd"
       /\ \A k \in 2..Len(lastEnded.log) : lastEnded.log[k] # "onUpdateStart"
       /\ \A k \in 1..(Len(lastEnded.log) - 1) : lastEnded.log[k] # "onUpdateEnd"
       /\ Len(lastEnded.endArgs) = 1
  /\ \A i \in DOMAIN flows :
       /\ flows[i].log[1] = "onUpdateStart"
       /\ "onUpdateEnd" \notin Range(flows[i].log)

\* C7: in one session at most one submission is in flight, and while it is,
\* isUpdating is set and Save is disabled.
T_C7 ==
  /\ Len(flows) <= 1
  /\ flows # <<>> => isUpdating /\ ~SaveEnabled

\* C7 witness: a second submission is in flight after the first one has ended.
W_C7 ==
  /\ Len(flows) = 1
  /\ Called(lastEnded)

\* progress text is on screen (lines 227 and 236)
Displayed == isUpdating /\ Truthy(updateProgressMessage)

\* C8 as stated: after a new InitialSet no progress text of an older session is
\* displayed.
CE_C8 == Displayed => progressSession = session

\* C9 as stated: when a submitted save of the current session ends with the
\* EditState it submitted, the EditState is discarded, so that a further save
\* computes an empty delta.
CE_C9 ==
  [][(/\ Ended
      /\ Called(lastEnded')
      /\ lastEnded'.session = session
      /\ lastCall = Delta)
     => ~isAnyFileChanged(addedFiles(documents'),
                          removedDocumentIds(initialDocuments', documents'))]_vars

\* C9 amended: EditState becomes InitialSet when a new InitialSet arrives and
\* no step of a save changes it; when a submitted save of the current session
\* ends with the EditState it submitted, Save is enabled and computes the same,
\* non-empty delta again.
T_C9 ==
  [][/\ session' # session => documents' = initialDocuments'
     /\ (session' = session /\ (flows' # flows \/ lastEnded' # lastEnded))
          => documents' = documents /\ initialDocuments' = initialDocuments
     /\ (Ended /\ Called(lastEnded') /\ lastEnded'.session = session /\ lastCall = Delta)
          => /\ SaveEnabled'
             /\ addedFiles(documents') = lastCall.added
             /\ removedDocumentIds(initialDocuments', documents') = lastCall.removed
             /\ isAnyFileChanged(lastCall.added, lastCall.removed)]_vars

\* C9 witness: a submitted save of the current session has ended and EditState
\* still holds the file it submitted.
W_C9 ==
  /\ Called(lastEnded)
  /\ lastEnded.session = session
  /\ flows = <<>>
  /\ lastCall = Delta
  /\ lastCall.added # <<>>

\* C10 as stated: isUpdating is true whenever a submission started in the
\* current session is still being consumed.
CE_C10 == (\E i \in DOMAIN flows : flows[i].session = session) => isUpdating

====
